---------------------------- MODULE Spec2Model ----------------------------
(***************************************************************************)
(* A model of cvk_device (src/device.hpp): the memory-type resolver        *)
(* (memory_type_index_for_resource, select_memory_for) and the round-robin *)
(* queue allocator (vulkan_queue_allocate).                                *)
(***************************************************************************)
EXTENDS Integers, Sequences, FiniteSets, TLC

(***************************************************************************)
(* Bounds of the model.                                                    *)
(***************************************************************************)
\* largest memoryTypeCount of a modelled device
MaxTypes == 2
\* longest supported_memory_types array passed to the resolver
MaxList == 2
\* largest VkMemoryRequirements.size
MaxSize == 2
\* largest queue pool
MaxQueues == 3
\* vulkan_queue_allocate calls in one run of the sequential device
MaxCalls == 6
\* vulkan_queue_allocate calls per caller in the concurrent device
MaxRaceCalls == 2

(***************************************************************************)
(* Program constants.                                                      *)
(***************************************************************************)
VK_MEMORY_PROPERTY_DEVICE_LOCAL_BIT == 1
VK_MEMORY_PROPERTY_HOST_VISIBLE_BIT == 2
VK_MEMORY_PROPERTY_HOST_COHERENT_BIT == 4
VK_MEMORY_PROPERTY_HOST_CACHED_BIT == 8
VK_MAX_MEMORY_TYPES == 32

VARIABLES
    memoryTypes,                 \* m_mem_properties.memoryTypes[0..memoryTypeCount-1].propertyFlags
    initialized,                 \* has init() populated the queue pool
    m_vulkan_queues,             \* the queue pool
    m_vulkan_queue_alloc_index,  \* the round-robin cursor
    allocated,                   \* the references vulkan_queue_allocate returned, in call order
    status,                      \* "running", or "aborted" once the process crashed
    inBits,                      \* the compatibility bitmask the callers pass to the resolver
    inList,                      \* the supported_memory_types array the callers pass
    call,                        \* the last resolver call: its operation, inputs and result
    serialized,                  \* do the concurrent callers hold an external mutex
    mutex,                       \* the holder of that mutex, 0 when free
    pc,                          \* each concurrent caller's position in vulkan_queue_allocate
    local,                       \* each concurrent caller's registers
    ncalls                       \* each concurrent caller's started calls

vars == <<memoryTypes, initialized, m_vulkan_queues, m_vulkan_queue_alloc_index,
          allocated, status, inBits, inList, call, serialized, mutex, pc,
          local, ncalls>>

resolverVars == <<inBits, inList, call>>
queueVars == <<initialized, m_vulkan_queues, m_vulkan_queue_alloc_index,
               allocated, status>>
raceVars == <<serialized, mutex, pc, local, ncalls>>

(***************************************************************************)
(* Bit arithmetic on unsigned integers.                                    *)
(***************************************************************************)
RECURSIVE Pow2(_)
Pow2(k) == IF k = 0 THEN 1 ELSE 2 * Pow2(k - 1)

RECURSIVE BitAnd(_, _)
BitAnd(a, b) ==
    IF a = 0 \/ b = 0 THEN 0
    ELSE (a % 2) * (b % 2) + 2 * BitAnd(a \div 2, b \div 2)

BitOr(a, b) == a + b - BitAnd(a, b)

(***************************************************************************)
(* memory_type_index_for_resource(valid_memory_type_bits,                  *)
(*                                required_properties)                     *)
(***************************************************************************)
memoryTypeCount == Len(memoryTypes)

\* bool valid = (1ULL << k) & valid_memory_type_bits;
Valid(k, valid_memory_type_bits) ==
    BitAnd(Pow2(k), valid_memory_type_bits) # 0

\* a plausible slip: any common flag accepted instead of all required flags
SatisfactoryAnyFlag(dev_properties, required_properties) ==
    BitAnd(dev_properties, required_properties) # 0

\* (dev_properties & required_properties) == required_properties
Satisfactory(dev_properties, required_properties) ==
    BitAnd(dev_properties, required_properties) = required_properties

\* a plausible slip: || written for &&
CandidateEither(k, valid_memory_type_bits, required_properties) ==
    \/ Satisfactory(memoryTypes[k + 1], required_properties)
    \/ Valid(k, valid_memory_type_bits)

\* if (satisfactory && valid)
Candidate(k, valid_memory_type_bits, required_properties) ==
    /\ Satisfactory(memoryTypes[k + 1], required_properties)
    /\ Valid(k, valid_memory_type_bits)

\* the loop of memory_type_index_for_resource, entered with counter k
RECURSIVE ScanTypes(_, _, _)
ScanTypes(k, valid_memory_type_bits, required_properties) ==
    IF k < memoryTypeCount
    THEN IF Candidate(k, valid_memory_type_bits, required_properties)
         THEN k
         ELSE ScanTypes(k + 1, valid_memory_type_bits, required_properties)
    ELSE VK_MAX_MEMORY_TYPES

\* a plausible slip: the scan resumes at the queue cursor instead of at 0
ResolveSingleFromCursor(valid_memory_type_bits, required_properties) ==
    ScanTypes(m_vulkan_queue_alloc_index, valid_memory_type_bits,
              required_properties)

ResolveSingle(valid_memory_type_bits, required_properties) ==
    ScanTypes(0, valid_memory_type_bits, required_properties)

(***************************************************************************)
(* memory_type_index_for_resource(valid_memory_type_bits, num_supported,   *)
(*                                supported_memory_types)                  *)
(***************************************************************************)
\* the loop over supported_memory_types, entered with counter i (0-based)
RECURSIVE ScanSupported(_, _, _)
ScanSupported(i, valid_memory_type_bits, supported) ==
    IF i < Len(supported)
    THEN LET k == ResolveSingle(valid_memory_type_bits, supported[i + 1])
         IN  IF k # VK_MAX_MEMORY_TYPES
             THEN k
             ELSE ScanSupported(i + 1, valid_memory_type_bits, supported)
    ELSE VK_MAX_MEMORY_TYPES

\* a plausible slip: the least index over all the sets, not the first set's
RECURSIVE LeastOverSupported(_, _, _)
LeastOverSupported(i, valid_memory_type_bits, supported) ==
    IF i < Len(supported)
    THEN LET k == ResolveSingle(valid_memory_type_bits, supported[i + 1])
             r == LeastOverSupported(i + 1, valid_memory_type_bits, supported)
         IN  IF k < r THEN k ELSE r
    ELSE VK_MAX_MEMORY_TYPES

ResolveWithFallbacksLeast(valid_memory_type_bits, supported) ==
    LeastOverSupported(0, valid_memory_type_bits, supported)

ResolveWithFallbacks(valid_memory_type_bits, supported) ==
    ScanSupported(0, valid_memory_type_bits, supported)

(***************************************************************************)
(* select_memory_for                                                       *)
(***************************************************************************)
HostCachedCoherent ==
    BitOr(VK_MEMORY_PROPERTY_HOST_VISIBLE_BIT,
          BitOr(VK_MEMORY_PROPERTY_HOST_CACHED_BIT,
                VK_MEMORY_PROPERTY_HOST_COHERENT_BIT))

HostCoherent ==
    BitOr(VK_MEMORY_PROPERTY_HOST_VISIBLE_BIT,
          VK_MEMORY_PROPERTY_HOST_COHERENT_BIT)

\* a plausible slip: the two entries of the array swapped
supported_memory_types_swapped == <<HostCoherent, HostCachedCoherent>>

\* uint32_t supported_memory_types[] of select_memory_for(VkBuffer, ...)
supported_memory_types == <<HostCachedCoherent, HostCoherent>>

\* a plausible slip: an image placed with the host-visible requirement
ImageRequiredHostVisible == VK_MEMORY_PROPERTY_HOST_VISIBLE_BIT

\* the required set of select_memory_for(VkImage)
ImageRequired == VK_MEMORY_PROPERTY_DEVICE_LOCAL_BIT


\* ret.size = memreqs.size
EchoSize(size) == size

\* allocation_parameters of select_memory_for(VkImage), for the memory
\* requirements (size, memoryTypeBits) the driver reports
SelectMemoryForImage(size, memoryTypeBits) ==
    [size |-> EchoSize(size),
     memory_type_index |-> ResolveSingle(memoryTypeBits, ImageRequired)]

\* allocation_parameters of select_memory_for(VkBuffer, flags)
SelectMemoryForBuffer(size, memoryTypeBits) ==
    [size |-> EchoSize(size),
     memory_type_index |->
         ResolveWithFallbacks(memoryTypeBits, supported_memory_types)]

(***************************************************************************)
(* The values the model draws from.                                        *)
(***************************************************************************)
SeqsUpTo(S, n) == UNION {[1..m -> S] : m \in 0..n}

\* propertyFlags of the memory types of a device
TypeFlags ==
    {VK_MEMORY_PROPERTY_DEVICE_LOCAL_BIT, HostCoherent, HostCachedCoherent}

\* required property sets a caller asks for
PropSets ==
    {0, VK_MEMORY_PROPERTY_DEVICE_LOCAL_BIT, HostCoherent, HostCachedCoherent}

\* every bitmask over the positions 0..MaxTypes-1; on a device with fewer
\* types the upper positions lie beyond memoryTypeCount
Bitmasks == 0..(Pow2(MaxTypes) - 1)

Sizes == 1..MaxSize

NoCall ==
    [op |-> "none", required |-> 0, size |-> 0,
     ret |-> [size |-> 0, memory_type_index |-> VK_MAX_MEMORY_TYPES]]

(***************************************************************************)
(* The resolver's operations, as a caller invokes them.                    *)
(***************************************************************************)
CallResolveSingle(required_properties) ==
    /\ status = "running"
    /\ call' = [op |-> "resolve_single", required |-> required_properties,
                size |-> 0,
                ret |-> [size |-> 0,
                         memory_type_index |->
                             ResolveSingle(inBits, required_properties)]]
    /\ UNCHANGED <<memoryTypes, queueVars, raceVars, inBits, inList>>

CallResolveWithFallbacks ==
    /\ status = "running"
    /\ call' = [op |-> "resolve_with_fallbacks", required |-> 0, size |-> 0,
                ret |-> [size |-> 0,
                         memory_type_index |->
                             ResolveWithFallbacks(inBits, inList)]]
    /\ UNCHANGED <<memoryTypes, queueVars, raceVars, inBits, inList>>

CallSelectMemoryForImage(size) ==
    /\ status = "running"
    /\ call' = [op |-> "select_image", required |-> 0, size |-> size,
                ret |-> SelectMemoryForImage(size, inBits)]
    /\ UNCHANGED <<memoryTypes, queueVars, raceVars, inBits, inList>>

CallSelectMemoryForBuffer(size) ==
    /\ status = "running"
    /\ call' = [op |-> "select_buffer", required |-> 0, size |-> size,
                ret |-> SelectMemoryForBuffer(size, inBits)]
    /\ UNCHANGED <<memoryTypes, queueVars, raceVars, inBits, inList>>

(***************************************************************************)
(* SpecResolver: the resolver applied to every table and every input       *)
(* within the bounds.                                                      *)
(***************************************************************************)
InitResolver ==
    /\ memoryTypes \in SeqsUpTo(TypeFlags, MaxTypes)
    /\ inBits \in Bitmasks
    /\ inList \in SeqsUpTo(PropSets, MaxList)
    /\ call = NoCall
    /\ initialized = FALSE
    /\ m_vulkan_queues = <<>>
    /\ m_vulkan_queue_alloc_index = 0
    /\ allocated = <<>>
    /\ status = "running"
    /\ serialized = FALSE
    /\ mutex = 0
    /\ pc = <<>>
    /\ local = <<>>
    /\ ncalls = <<>>

NextResolver ==
    \/ \E required_properties \in PropSets :
           CallResolveSingle(required_properties)
    \/ CallResolveWithFallbacks
    \/ \E size \in Sizes : CallSelectMemoryForImage(size)
    \/ \E size \in Sizes : CallSelectMemoryForBuffer(size)

SpecResolver == InitResolver /\ [][NextResolver]_vars

(***************************************************************************)
(* The queue allocator: vulkan_queue_allocate, run by one caller at a time *)
(***************************************************************************)
queue_count == Len(m_vulkan_queues)

\* a plausible slip: pre-increment, m_vulkan_queues[++m_vulkan_queue_alloc_index]
ReadIndexPreIncrement(idx) == idx + 1

\* the index m_vulkan_queues[m_vulkan_queue_alloc_index++] reads: the value
\* before the increment
ReadIndex(idx) == idx

\* a plausible slip: > written for ==
AtEndPast(idx) == idx > queue_count

\* m_vulkan_queue_alloc_index == m_vulkan_queues.size()
AtEnd(idx) == idx = queue_count

\* a plausible slip: the reset to 0 left out
WrapIndexNever(idx) == idx

\* the cursor after the comparison and the reset
WrapIndex(idx) == IF AtEnd(idx) THEN 0 ELSE idx

\* One whole call.  allocated records the index of the element the returned
\* reference designates.  Indexing the vector out of range is undefined: a
\* hardened build aborts, any other returns a reference outside the pool
\* and goes on.
VulkanQueueAllocate ==
    /\ status = "running"
    /\ Len(allocated) < MaxCalls
    /\ LET i == ReadIndex(m_vulkan_queue_alloc_index)
       IN  \/ /\ i < queue_count
              /\ allocated' = Append(allocated, i)
              /\ m_vulkan_queue_alloc_index' =
                     WrapIndex(m_vulkan_queue_alloc_index + 1)
              /\ status' = status
           \/ /\ i >= queue_count
              /\ \/ /\ status' = "aborted"
                    /\ UNCHANGED <<allocated, m_vulkan_queue_alloc_index>>
                 \/ /\ allocated' = Append(allocated, i)
                    /\ m_vulkan_queue_alloc_index' =
                           WrapIndex(m_vulkan_queue_alloc_index + 1)
                    /\ status' = status
    /\ UNCHANGED <<memoryTypes, initialized, m_vulkan_queues, resolverVars,
                   raceVars>>

\* Device initialization (init, create_vulkan_queues_and_device): creates
\* num_queues > 0 queues and starts the cursor at the pool's first element.
DeviceInit(num_queues) ==
    /\ status = "running"
    /\ ~initialized
    /\ initialized' = TRUE
    /\ m_vulkan_queues' = [i \in 1..num_queues |-> i]
    /\ m_vulkan_queue_alloc_index' = 0
    /\ allocated' = <<>>
    /\ UNCHANGED <<memoryTypes, status, resolverVars, raceVars>>

(***************************************************************************)
(* Spec: one device, from its construction on, used by one caller at a     *)
(* time.                                                                   *)
(***************************************************************************)
\* a device whose n memory types follow the order device-local,
\* host-coherent, host-cached-and-coherent
DeviceTable(n) ==
    [i \in 1..n |->
        <<VK_MEMORY_PROPERTY_DEVICE_LOCAL_BIT, HostCoherent,
          HostCachedCoherent>>[((i - 1) % Cardinality(TypeFlags)) + 1]]

\* the arrays the callers of this device pass
DeviceLists == {<<>>, <<ImageRequired>>, supported_memory_types}

\* m_vulkan_queue_alloc_index has no initializer: after construction it
\* holds an indeterminate value
Indeterminate == 0..MaxQueues

\* the state the constructor cvk_device(VkPhysicalDevice) leaves
Init ==
    /\ memoryTypes \in {DeviceTable(n) : n \in 0..MaxTypes}
    /\ inBits \in Bitmasks
    /\ inList \in DeviceLists
    /\ call = NoCall
    /\ initialized = FALSE
    /\ m_vulkan_queues = <<>>
    /\ m_vulkan_queue_alloc_index \in Indeterminate
    /\ allocated = <<>>
    /\ status = "running"
    /\ serialized = FALSE
    /\ mutex = 0
    /\ pc = <<>>
    /\ local = <<>>
    /\ ncalls = <<>>

Next ==
    \/ \E num_queues \in 1..MaxQueues : DeviceInit(num_queues)
    \/ VulkanQueueAllocate
    \/ \E required_properties \in PropSets :
           CallResolveSingle(required_properties)
    \/ CallResolveWithFallbacks
    \/ \E size \in Sizes : CallSelectMemoryForImage(size)
    \/ \E size \in Sizes : CallSelectMemoryForBuffer(size)

Spec == Init /\ [][Next]_vars

(***************************************************************************)
(* SpecRace: two callers inside vulkan_queue_allocate at once.  The        *)
(* function takes no lock, so its reads and writes of the cursor           *)
(* interleave; callers that hold a mutex of their own around the call run  *)
(* it one at a time.                                                       *)
(***************************************************************************)
Callers == {1, 2}

\* the caller enters vulkan_queue_allocate, taking its own mutex first when
\* the callers serialize
Enter(t) ==
    /\ status = "running"
    /\ pc[t] = "idle"
    /\ ncalls[t] < MaxRaceCalls
    /\ IF serialized THEN mutex = 0 /\ mutex' = t ELSE mutex' = mutex
    /\ ncalls' = [ncalls EXCEPT ![t] = @ + 1]
    /\ pc' = [pc EXCEPT ![t] = "load"]
    /\ UNCHANGED <<memoryTypes, queueVars, resolverVars, serialized, local>>

\* m_vulkan_queue_alloc_index++ : the read
LoadIndex(t) ==
    /\ status = "running"
    /\ pc[t] = "load"
    /\ local' = [local EXCEPT ![t].idx = m_vulkan_queue_alloc_index]
    /\ pc' = [pc EXCEPT ![t] = "store"]
    /\ UNCHANGED <<memoryTypes, queueVars, resolverVars, serialized, mutex,
                   ncalls>>

\* m_vulkan_queue_alloc_index++ : the write, and m_vulkan_queues[...] on the
\* value read
StoreIndex(t) ==
    /\ status = "running"
    /\ pc[t] = "store"
    /\ LET i == ReadIndex(local[t].idx)
       IN  \/ /\ i >= queue_count
              /\ status' = "aborted"
              /\ UNCHANGED <<allocated, m_vulkan_queue_alloc_index, pc>>
           \/ /\ allocated' = Append(allocated, i)
              /\ m_vulkan_queue_alloc_index' = local[t].idx + 1
              /\ status' = status
              /\ pc' = [pc EXCEPT ![t] = "compare"]
    /\ UNCHANGED <<memoryTypes, initialized, m_vulkan_queues, resolverVars,
                   serialized, mutex, local, ncalls>>

\* if (m_vulkan_queue_alloc_index == m_vulkan_queues.size()) : the read
CompareIndex(t) ==
    /\ status = "running"
    /\ pc[t] = "compare"
    /\ local' = [local EXCEPT ![t].atEnd = AtEnd(m_vulkan_queue_alloc_index)]
    /\ pc' = [pc EXCEPT ![t] = "reset"]
    /\ UNCHANGED <<memoryTypes, queueVars, resolverVars, serialized, mutex,
                   ncalls>>

\* m_vulkan_queue_alloc_index = 0 when the comparison held; return queue,
\* after which the caller releases the mutex it took
ResetAndReturn(t) ==
    /\ status = "running"
    /\ pc[t] = "reset"
    /\ m_vulkan_queue_alloc_index' =
           IF local[t].atEnd THEN 0 ELSE m_vulkan_queue_alloc_index
    /\ mutex' = IF serialized THEN 0 ELSE mutex
    /\ pc' = [pc EXCEPT ![t] = "idle"]
    /\ UNCHANGED <<memoryTypes, initialized, m_vulkan_queues, allocated,
                   status, resolverVars, serialized, local, ncalls>>

\* an initialized device with its cursor at the pool's first element
InitRace ==
    /\ memoryTypes = DeviceTable(MaxTypes)
    /\ inBits = 0
    /\ inList = <<>>
    /\ call = NoCall
    /\ initialized = TRUE
    /\ m_vulkan_queues \in {[i \in 1..n |-> i] : n \in 1..MaxQueues}
    /\ m_vulkan_queue_alloc_index = 0
    /\ allocated = <<>>
    /\ status = "running"
    /\ serialized \in BOOLEAN
    /\ mutex = 0
    /\ pc = [t \in Callers |-> "idle"]
    /\ local = [t \in Callers |-> [idx |-> 0, atEnd |-> FALSE]]
    /\ ncalls = [t \in Callers |-> 0]

NextRace ==
    \E t \in Callers :
        \/ Enter(t)
        \/ LoadIndex(t)
        \/ StoreIndex(t)
        \/ CompareIndex(t)
        \/ ResetAndReturn(t)

SpecRace == InitRace /\ [][NextRace]_vars

(***************************************************************************)
(* The vocabulary of the properties: a bitmask as a set of positions, a    *)
(* flag word as a set of flags.                                            *)
(***************************************************************************)
HasBit(bits, i) == (bits \div Pow2(i)) % 2 = 1

FlagBits ==
    {VK_MEMORY_PROPERTY_DEVICE_LOCAL_BIT, VK_MEMORY_PROPERTY_HOST_VISIBLE_BIT,
     VK_MEMORY_PROPERTY_HOST_COHERENT_BIT, VK_MEMORY_PROPERTY_HOST_CACHED_BIT}

FlagsOf(word) == {b \in FlagBits : (word \div b) % 2 = 1}

\* the types the bitmask allows whose flags include every flag of F
EligibleWith(F) ==
    {i \in 0..(memoryTypeCount - 1) :
        HasBit(inBits, i) /\ F \subseteq FlagsOf(memoryTypes[i + 1])}

Least(S) == CHOOSE x \in S : \A y \in S : x <= y

LeastOrSentinel(S) == IF S = {} THEN VK_MAX_MEMORY_TYPES ELSE Least(S)

(***************************************************************************)
(* C1. resolve_single returns the least index i < memoryTypeCount whose    *)
(* bit is set in the bitmask and whose flags include every required flag,  *)
(* and the sentinel exactly when there is no such index; a result other    *)
(* than the sentinel is below memoryTypeCount.                             *)
(***************************************************************************)
C1_ResolveSingleLeastEligible ==
    call.op = "resolve_single" =>
        /\ call.ret.memory_type_index =
               LeastOrSentinel(EligibleWith(FlagsOf(call.required)))
        /\ call.ret.memory_type_index # VK_MAX_MEMORY_TYPES =>
               call.ret.memory_type_index < memoryTypeCount

\* two types satisfy a non-empty requirement and the lower index was
\* returned
C1_Witness ==
    /\ call.op = "resolve_single"
    /\ Cardinality(EligibleWith(FlagsOf(call.required))) >= 2
    /\ call.ret.memory_type_index = 0
    /\ call.required # 0

\* the bit at position memoryTypeCount is set, nothing below matches, and
\* the sentinel was returned
C1_WitnessBeyond ==
    /\ call.op = "resolve_single"
    /\ memoryTypeCount < MaxTypes
    /\ HasBit(inBits, memoryTypeCount)
    /\ call.ret.memory_type_index = VK_MAX_MEMORY_TYPES

Hits ==
    {i \in 1..Len(inList) :
        ResolveSingle(inBits, inList[i]) # VK_MAX_MEMORY_TYPES}

(***************************************************************************)
(* C2. resolve_with_fallbacks returns resolve_single of the first set of   *)
(* the list, in list order, whose resolve_single is not the sentinel, and  *)
(* the sentinel when every set yields the sentinel.                        *)
(***************************************************************************)
C2_FallbacksFirstInListOrder ==
    call.op = "resolve_with_fallbacks" =>
        IF Hits = {}
        THEN call.ret.memory_type_index = VK_MAX_MEMORY_TYPES
        ELSE call.ret.memory_type_index =
                 ResolveSingle(inBits, inList[Least(Hits)])

\* list order against index order: the first set resolves, and a later set
\* resolves to a lower index
C2_Witness ==
    /\ call.op = "resolve_with_fallbacks"
    /\ Hits # {}
    /\ \E j \in Hits :
           /\ j > Least(Hits)
           /\ ResolveSingle(inBits, inList[j]) <
                  ResolveSingle(inBits, inList[Least(Hits)])
    /\ call.ret.memory_type_index =
           ResolveSingle(inBits, inList[Least(Hits)])

(***************************************************************************)
(* C3. resolve_with_fallbacks returns the sentinel for an empty list and   *)
(* for an all-zero bitmask, whatever the list holds.                       *)
(***************************************************************************)
C3_EmptyListOrZeroMaskIsSentinel ==
    (call.op = "resolve_with_fallbacks" /\ (inList = <<>> \/ inBits = 0)) =>
        call.ret.memory_type_index = VK_MAX_MEMORY_TYPES

\* an all-zero bitmask, a device with types, and a list holding the empty
\* requirement that every type satisfies
C3_Witness ==
    /\ call.op = "resolve_with_fallbacks"
    /\ inBits = 0
    /\ memoryTypeCount > 0
    /\ \E i \in 1..Len(inList) : inList[i] = 0
    /\ call.ret.memory_type_index = VK_MAX_MEMORY_TYPES

CachedTypes ==
    EligibleWith({VK_MEMORY_PROPERTY_HOST_VISIBLE_BIT,
                  VK_MEMORY_PROPERTY_HOST_CACHED_BIT,
                  VK_MEMORY_PROPERTY_HOST_COHERENT_BIT})

CoherentTypes ==
    EligibleWith({VK_MEMORY_PROPERTY_HOST_VISIBLE_BIT,
                  VK_MEMORY_PROPERTY_HOST_COHERENT_BIT})

(***************************************************************************)
(* C9. select_memory_for(VkBuffer) echoes the size; its type has all of    *)
(* host-visible, host-cached and host-coherent whenever an eligible type   *)
(* has them, is otherwise the lowest eligible visible-and-coherent type,   *)
(* and is the sentinel exactly when no eligible type is visible and        *)
(* coherent.                                                               *)
(***************************************************************************)
C9_BufferPrefersCachedThenCoherent ==
    call.op = "select_buffer" =>
        /\ call.ret.size = call.size
        /\ CachedTypes # {} => call.ret.memory_type_index = Least(CachedTypes)
        /\ CachedTypes = {} =>
               call.ret.memory_type_index = LeastOrSentinel(CoherentTypes)
        /\ call.ret.memory_type_index = VK_MAX_MEMORY_TYPES <=>
               CoherentTypes = {}

\* a cached type was chosen over a lower-indexed eligible coherent-only type
C9_Witness ==
    /\ call.op = "select_buffer"
    /\ call.ret.memory_type_index \in CachedTypes
    /\ \E i \in CoherentTypes \ CachedTypes :
           i < call.ret.memory_type_index

LocalTypes == EligibleWith({VK_MEMORY_PROPERTY_DEVICE_LOCAL_BIT})

(***************************************************************************)
(* C10. select_memory_for(VkImage) echoes the size and returns the lowest  *)
(* eligible device-local type, the sentinel when no eligible type is       *)
(* device-local, whatever host-visible types are eligible.                 *)
(***************************************************************************)
C10_ImageDeviceLocalOnly ==
    call.op = "select_image" =>
        /\ call.ret.size = call.size
        /\ call.ret.memory_type_index = LeastOrSentinel(LocalTypes)

\* host-visible types are eligible, none is device-local: the sentinel
C10_Witness ==
    /\ call.op = "select_image"
    /\ LocalTypes = {}
    /\ EligibleWith({VK_MEMORY_PROPERTY_HOST_VISIBLE_BIT}) # {}
    /\ call.ret.memory_type_index = VK_MAX_MEMORY_TYPES

\* the j-th call returned the pool's element at position p (0-based)
ReturnedAt(j, p) ==
    /\ allocated[j] < queue_count
    /\ m_vulkan_queues[allocated[j] + 1] = m_vulkan_queues[p + 1]

(***************************************************************************)
(* C4. On an initialized device, with the calls run one at a time, the     *)
(* j-th vulkan_queue_allocate returns the queue at position (j - 1) mod N  *)
(* of the pool and the cursor stands at j mod N: the first N calls return  *)
(* each queue once in pool order, and call N + j returns what call j did.  *)
(***************************************************************************)
C4_RoundRobinOrder ==
    initialized =>
        /\ \A j \in 1..Len(allocated) : ReturnedAt(j, (j - 1) % queue_count)
        /\ \A j \in 1..Len(allocated) :
               j > queue_count =>
                   allocated[j] = allocated[j - queue_count]
        /\ m_vulkan_queue_alloc_index = Len(allocated) % queue_count

\* a pool of several queues gone round twice
C4_Witness ==
    /\ initialized
    /\ queue_count >= 2
    /\ Len(allocated) = 2 * queue_count
    /\ m_vulkan_queue_alloc_index = 0

(***************************************************************************)
(* C5. Whenever the pool holds queue_count > 0 queues, the cursor is in    *)
(* 0..queue_count-1, and every vulkan_queue_allocate read an element       *)
(* inside the pool.                                                        *)
(***************************************************************************)
C5_CursorInRange ==
    queue_count > 0 =>
        /\ 0 <= m_vulkan_queue_alloc_index
        /\ m_vulkan_queue_alloc_index < queue_count
        /\ \A j \in 1..Len(allocated) :
               0 <= allocated[j] /\ allocated[j] < queue_count
        /\ status = "running"

\* the cursor back at 0 after reaching the pool's last element
C5_Witness ==
    /\ queue_count >= 2
    /\ Len(allocated) = queue_count
    /\ allocated[Len(allocated)] = queue_count - 1
    /\ m_vulkan_queue_alloc_index = 0

(***************************************************************************)
(* C6. vulkan_queue_allocate on an empty pool is fatal: no call on an      *)
(* empty pool returns a reference to its caller and goes on.               *)
(***************************************************************************)
C6_EmptyPoolAllocateIsFatal ==
    (queue_count = 0 /\ status = "running") => allocated = <<>>

SerializedRoundRobin ==
    /\ status = "running"
    /\ \A j \in 1..Len(allocated) : ReturnedAt(j, (j - 1) % queue_count)
    /\ mutex = 0 => m_vulkan_queue_alloc_index < queue_count

\* the cursor is beyond the pool's size and no call in progress holds a
\* value that would bring it back
CursorStuck ==
    /\ m_vulkan_queue_alloc_index > queue_count
    /\ \A t \in Callers :
           /\ pc[t] = "store" => local[t].idx >= queue_count
           /\ pc[t] = "reset" => ~local[t].atEnd

(***************************************************************************)
(* C7. Callers that serialize vulkan_queue_allocate get the round-robin    *)
(* order and a cursor inside the pool whenever no call is in progress;     *)
(* callers that do not can leave the cursor beyond the pool's size, where  *)
(* no later call brings it back, and can be handed the same queue twice in *)
(* a row.                                                                  *)
(***************************************************************************)
C7_SerializedOrRacing ==
    /\ [](serialized => SerializedRoundRobin)
    /\ [][CursorStuck => CursorStuck']_vars

\* unserialized callers at rest: the cursor stuck beyond the pool, after two
\* consecutive calls were handed the same queue of a pool of several
C7_Witness ==
    /\ ~serialized
    /\ \A t \in Callers : pc[t] = "idle"
    /\ CursorStuck
    /\ queue_count >= 2
    /\ \E j \in 1..(Len(allocated) - 1) : allocated[j] = allocated[j + 1]

SameInputs ==
    /\ call'.op = call.op
    /\ call'.required = call.required
    /\ call'.size = call.size

(***************************************************************************)
(* C8. A resolver call changes neither the memory-type table nor the queue *)
(* pool nor the cursor; vulkan_queue_allocate and device initialization    *)
(* leave the table alone; and a resolver call repeated with the inputs of  *)
(* the last one returns the result of the last one, whatever allocations   *)
(* happened in between.                                                    *)
(***************************************************************************)
C8_ResolverPureAndFramed ==
    [][/\ call' # call =>
              UNCHANGED <<memoryTypes, m_vulkan_queues,
                          m_vulkan_queue_alloc_index, allocated>>
       /\ (allocated' # allocated
              \/ m_vulkan_queue_alloc_index' # m_vulkan_queue_alloc_index) =>
              UNCHANGED <<memoryTypes, call>>
       /\ SameInputs => call'.ret = call.ret]_vars

\* a resolver result found at index 0 stands while the cursor has moved on
C8_Witness ==
    /\ initialized
    /\ m_vulkan_queue_alloc_index > 0
    /\ allocated # <<>>
    /\ call.op = "resolve_single"
    /\ call.ret.memory_type_index = 0

=============================================================================
